---------------------------- MODULE Spec2Model ----------------------------
(***************************************************************************)
(* A model of the monicars driving simulator: the unicycle motion model,   *)
(* the rectangle geometry (util.py), the vehicles (agent.py, npc.py), the  *)
(* traffic manager (npc.py) and the environment's reset/step (monicars.py).*)
(*                                                                         *)
(* Number representation.  The program computes in floating point; the     *)
(* model computes exactly, on a grid:                                      *)
(*   - lengths and speeds are integers (pixels, pixels per tick);          *)
(*   - angles are integers counting quarter turns (1 = pi/2), so that sin  *)
(*     and cos are exact; DIRS = {down: 0, right: 1, up: 2, left: -1};     *)
(*   - a steering command s stands for the angle whose tan(s)/50 is s      *)
(*     quarter turns per pixel of speed, so that Unicycle.move's           *)
(*     steerAngle = speed * tan(steering) / 50 is speed * s quarter turns. *)
(*     tan is increasing on the steering range, so clipping the command    *)
(*     and clipping its tangent agree;                                     *)
(*   - SMALL = 0.001 compares against integers: abs(c) < SMALL is c = 0    *)
(*     and abs(c) > SMALL is c # 0;                                        *)
(*   - distances are compared through their squares; the intersection      *)
(*     point of two lines is kept as a fraction (numerators over -cross).  *)
(* Gaussian noise on initial poses is switched off (add_noise: false).     *)
(***************************************************************************)
EXTENDS Integers, Sequences, FiniteSets, TLC

(***************************************************************************)
(* Configuration (config.yaml and the map description), scaled to the grid *)
(***************************************************************************)
\* map description: width and height of the environment
Width == 8
Height == 8
\* size of a car image: img.get_width() and img.get_height()
CarW == 2
CarH == 4
\* global: max_acc, max_angle, max_speed
MaxAcc == 2
MaxAngle == 1
MaxSpeed == 2
\* traffic: max_cars, speed
MaxCars == 2
TrafficSpeed == 1
\* obstacle: x, y, theta, speed, crash_y
ObstacleX == 3
ObstacleY == 4
ObstacleTheta == 0
ObstacleSpeed == 3
CrashY == 7
\* the deceleration a crashing Obstacle applies (it is passed as -CrashDecel)
CrashDecel == 2
\* agent start pose of the map description (agent_start: x, y, theta)
AgentX == 6
AgentY == 4
AgentTheta == 0
AgentSpeed == 0

\* map description: starts, each a position and an orientation
Starts ==
  << [position |-> <<7, 8>>, orientation |-> "up"],
     [position |-> <<8, 4>>, orientation |-> "left"] >>

\* NPCManager.DIRS, in quarter turns
DIRS == [down |-> 0, right |-> 1, up |-> 2, left |-> -1]

(***************************************************************************)
(* Bounds of the model                                                     *)
(***************************************************************************)
\* number of step calls explored
MaxTicks == 4
\* number of reset calls explored
MaxResets == 1

\* the points handed to Rectangle.is_inside lie on the grid 0..GeoMax x 0..GeoMax, and a
\* run makes at most GeoCalls calls on the rectangles
GeoMax == 10
GeoCalls == 1
\* the angles handed to normalize_angle are -GeoTurns..GeoTurns quarter turns
GeoTurns == 6

\* the number of moves made in a row on one vehicle
MotionMoves == 2

\* number of step calls explored when one NPC is followed from step to step
LiveTicks == 5

(***************************************************************************)
(* Small helpers                                                           *)
(***************************************************************************)
Abs(a) == IF a < 0 THEN -a ELSE a
Min2(a, b) == IF a < b THEN a ELSE b
Max2(a, b) == IF a > b THEN a ELSE b
Sq(a) == a * a

\* util.limit
limit(num, minimum, maximum) == Max2(minimum, Min2(maximum, num))

\* numpy.clip as input_to_action uses it
Clip(v, lo, hi) == IF v < lo THEN lo ELSE IF v > hi THEN hi ELSE v

\* math.sin and math.cos of an angle given in quarter turns
Sin(q) == CASE q % 4 = 0 -> 0 [] q % 4 = 1 -> 1 [] q % 4 = 2 -> 0 [] OTHER -> -1
Cos(q) == CASE q % 4 = 0 -> 1 [] q % 4 = 1 -> 0 [] q % 4 = 2 -> -1 [] OTHER -> 0

\* util.normalize_angle: (angle + pi) % (2 * pi) - pi
normalize_angle(angle) == ((angle + 2) % 4) - 2

\* numpy.arctan2(o, a) for a vector along an axis, in quarter turns
ArcTan2(o, a) ==
  CASE o = 0 /\ a >= 0 -> 0
    [] o > 0 /\ a = 0 -> 1
    [] o = 0 /\ a < 0 -> 2
    [] OTHER -> -1

\* util.input_to_action
input_to_action(usr_in) ==
  << Clip(usr_in[1], -MaxAcc, MaxAcc), Clip(usr_in[2], -MaxAngle, MaxAngle) >>

(***************************************************************************)
(* util.py: segments and rectangles.  A point is <<x, y>>, a segment a     *)
(* pair of points, a rectangle the sequence of its four corner points.     *)
(***************************************************************************)
DistSq(p, q) == Sq(p[1] - q[1]) + Sq(p[2] - q[2])

cross_product(u, v) ==
  LET x1 == u[2][1] - u[1][1]
      y1 == u[2][2] - u[1][2]
      x2 == v[2][1] - v[1][1]
      y2 == v[2][2] - v[1][2]
  IN  x1 * y2 - x2 * y1

\* on_segment(seg, pt) with on_line = False
on_segment(seg, pt) ==
  IF cross_product(seg, <<pt, seg[1]>>) # 0
  THEN FALSE
  ELSE /\ DistSq(seg[1], seg[2]) > DistSq(seg[1], pt)
       /\ DistSq(seg[1], seg[2]) > DistSq(seg[2], pt)

\* on_segment(seg, (nx / d, ny / d), on_line = True)
OnSegmentFrac(seg, nx, ny, d) ==
  LET len == DistSq(seg[1], seg[2]) * Sq(d)
  IN  /\ len > Sq(seg[1][1] * d - nx) + Sq(seg[1][2] * d - ny)
      /\ len > Sq(seg[2][1] * d - nx) + Sq(seg[2][2] * d - ny)

intersect(seg1, seg2) ==
  LET cross == cross_product(seg1, seg2)
      x1 == seg1[2][1] - seg1[1][1]
      y1 == seg1[2][2] - seg1[1][2]
      x2 == seg2[2][1] - seg2[1][1]
      y2 == seg2[2][2] - seg2[1][2]
      det1 == seg1[1][1] * seg1[2][2] - seg1[1][2] * seg1[2][1]
      det2 == seg2[1][1] * seg2[2][2] - seg2[1][2] * seg2[2][1]
      nx == det1 * x2 - x1 * det2
      ny == det1 * y2 - y1 * det2
  IN  IF cross = 0
      THEN TRUE
      ELSE /\ OnSegmentFrac(seg1, nx, ny, -cross)
           /\ OnSegmentFrac(seg2, nx, ny, -cross)

\* a variant of check_rect that accepts any three or more two-element points
check_rect_three_or_more(points) ==
  Len(points) >= 3 /\ \A i \in 1..Len(points) : Len(points[i]) = 2

\* Rectangle.check_rect: four points of two elements each
check_rect(points) ==
  IF Len(points) # 4 THEN FALSE
  ELSE \A i \in 1..4 : Len(points[i]) = 2

\* Rectangle.__init__: raises when check_rect fails; otherwise keeps the points and
\* measures width and height (kept as squares here)
RectangleInit(points) ==
  IF ~check_rect(points)
  THEN [raised |-> TRUE, points |-> <<>>, width_sq |-> 0, height_sq |-> 0]
  ELSE [raised |-> FALSE, points |-> points,
        width_sq |-> DistSq(points[1], points[2]),
        height_sq |-> DistSq(points[2], points[3])]

\* a variant of update_lines whose third line is a diagonal of the rectangle
LinesWithDiagonal(points) ==
  << <<points[1], points[2]>>, <<points[2], points[3]>>,
     <<points[3], points[1]>>, <<points[4], points[1]>> >>

\* Rectangle.update_lines
Lines(points) ==
  << <<points[1], points[2]>>, <<points[2], points[3]>>,
     <<points[3], points[4]>>, <<points[4], points[1]>> >>

\* Rectangle.get_centre; the corner sums of the boxes of the model are multiples of 4
get_centre(points) ==
  << (points[1][1] + points[2][1] + points[3][1] + points[4][1]) \div 4,
     (points[1][2] + points[2][2] + points[3][2] + points[4][2]) \div 4 >>

\* Rectangle.get_angle
get_angle(points) ==
  ArcTan2(points[2][1] - points[3][1], points[3][2] - points[2][2])

\* Rectangle.shift
shift(points, x, y) ==
  << <<points[1][1] + x, points[1][2] + y>>, <<points[2][1] + x, points[2][2] + y>>,
     <<points[3][1] + x, points[3][2] + y>>, <<points[4][1] + x, points[4][2] + y>> >>

\* a variant of the rotation of a point that mirrors it as well
RotatePointMirrored(pt, theta) ==
  << pt[1] * Cos(theta) + pt[2] * Sin(theta), pt[1] * Sin(theta) - pt[2] * Cos(theta) >>

\* Rectangle.rotate, "Rotate all the points about the origin": one point
RotatePoint(pt, theta) ==
  << pt[1] * Cos(theta) - pt[2] * Sin(theta), pt[1] * Sin(theta) + pt[2] * Cos(theta) >>

\* Rectangle.rotate: about the centre, by theta quarter turns
rotate(points, theta) ==
  LET centre == get_centre(points)
      atOrigin == shift(points, -centre[1], -centre[2])
      new_pts == << RotatePoint(atOrigin[1], theta), RotatePoint(atOrigin[2], theta),
                    RotatePoint(atOrigin[3], theta), RotatePoint(atOrigin[4], theta) >>
  IN  shift(new_pts, centre[1], centre[2])

\* Rectangle.transform: rotate, then shift
transform(points, x, y, theta) == shift(rotate(points, theta), x, y)

\* a variant of move_to that transforms by the target itself, not by the difference
move_to_by_target(points, x, y, theta) == transform(points, x, y, theta)

\* a variant of move_to that shifts the rectangle to the target and leaves its angle
move_to_shift_only(points, x, y, theta) ==
  LET curr_pos == get_centre(points)
  IN  transform(points, x - curr_pos[1], y - curr_pos[2], 0)

\* Rectangle.move_to
move_to(points, x, y, theta) ==
  LET curr_theta == get_angle(points)
      curr_pos == get_centre(points)
  IN  transform(points, x - curr_pos[1], y - curr_pos[2], theta - curr_theta)

\* 1 for a true condition, 0 for a false one: "intersections += 1" under an if
Count(b) == IF b THEN 1 ELSE 0

\* Rectangle.is_inside: ray casting from (0, 0)
is_inside(points, pt) ==
  LET ray == << <<0, 0>>, pt >>
      lines == Lines(points)
      crossed == Count(intersect(ray, lines[1])) + Count(intersect(ray, lines[2]))
                 + Count(intersect(ray, lines[3])) + Count(intersect(ray, lines[4]))
      corners == Count(on_segment(ray, points[1])) + Count(on_segment(ray, points[2]))
                 + Count(on_segment(ray, points[3])) + Count(on_segment(ray, points[4]))
  IN  (crossed + corners) % 2 = 1

\* Rectangle.overlaps: self.overlaps(rect)
overlaps(self, rect) == \E i \in 1..4 : is_inside(self, rect[i])

(***************************************************************************)
(* models.py, agent.py, npc.py: vehicles.  A vehicle is a record           *)
(*   kind      "agent" (the Agent), "npc" (a plain Agent spawned by the    *)
(*             manager) or "obstacle" (an Obstacle)                        *)
(*   x, y, heading, speed   the Unicycle state                             *)
(*   box       the corner points of bounding_box                           *)
(*   crash, crashing        the Obstacle's flags (FALSE for the others)    *)
(***************************************************************************)
\* Agent.__init__: the bounding box before it is moved to the pose
InitBox == << <<0, 0>>, <<0, CarW>>, <<CarH, CarW>>, <<CarH, 0>> >>

\* Agent.__init__ (add_noise off): the state and the box moved to it
NewAgent(x, y, theta, speed, kind) ==
  [kind |-> kind, x |-> x, y |-> y, heading |-> theta, speed |-> speed,
   box |-> move_to(InitBox, x, y, theta), crash |-> FALSE, crashing |-> FALSE]

\* Obstacle.__init__ (noise off); crash is obstacle.CRASH and a random draw
NewObstacle(crash) ==
  [NewAgent(ObstacleX, ObstacleY, ObstacleTheta, ObstacleSpeed, "obstacle")
     EXCEPT !.crash = crash]

\* a variant of Unicycle.move that takes the displacement from the speed before the
\* acceleration
UnicycleMoveOldSpeed(v, acc, steer) ==
  LET speed == v.speed + acc
      steerAngle == speed * steer
      heading == normalize_angle(v.heading + steerAngle)
      delta_x == v.speed * Sin(heading)
      delta_y == v.speed * Cos(heading)
  IN  [v |-> [v EXCEPT !.speed = speed, !.heading = heading,
                       !.x = v.x + delta_x, !.y = v.y + delta_y],
       delta |-> <<delta_x, delta_y, steerAngle>>]

\* Unicycle.move: the new state and the returned (delta_x, delta_y, steerAngle)
UnicycleMove(v, acc, steer) ==
  LET speed == v.speed + acc
      steerAngle == speed * steer
      heading == normalize_angle(v.heading + steerAngle)
      delta_x == speed * Sin(heading)
      delta_y == speed * Cos(heading)
  IN  [v |-> [v EXCEPT !.speed = speed, !.heading = heading,
                       !.x = v.x + delta_x, !.y = v.y + delta_y],
       delta |-> <<delta_x, delta_y, steerAngle>>]

\* Agent.move: move the object, then transform its bounding box by the deltas
AgentMove(v, acc, steer) ==
  LET m == UnicycleMove(v, acc, steer)
  IN  [m.v EXCEPT !.box = transform(v.box, m.delta[1], m.delta[2], m.delta[3])]

\* a variant of the crash check that forgets an earlier crash
ObstacleCrashingNow(v) == v.crash /\ v.y >= CrashY

\* Obstacle.move, first statement: the crash check
ObstacleCrashing(v) == v.crashing \/ (v.crash /\ v.y >= CrashY)

\* a variant of Obstacle.move that always passes the supplied action on
ObstacleControlSupplied(v, acc, steer) == <<acc, steer>>

\* Obstacle.move: the control that reaches Agent.move
ObstacleControl(v, acc, steer) ==
  IF ObstacleCrashing(v) /\ v.speed > 0 THEN <<-CrashDecel, 0>> ELSE <<acc, steer>>

\* npc.move(acc, theta) as NPCManager.step calls it: Obstacle.move or Agent.move
Move(v, acc, steer) ==
  IF v.kind = "obstacle"
  THEN LET c == ObstacleControl(v, acc, steer)
       IN  AgentMove([v EXCEPT !.crashing = ObstacleCrashing(v)], c[1], c[2])
  ELSE AgentMove(v, acc, steer)

\* Agent.in_map
in_map(v, width, height) == v.x <= width /\ v.y <= height /\ v.x >= 0 /\ v.y >= 0

\* Unicycle.get_state
get_state(v) == <<v.x, v.y, v.heading, v.speed>>

\* Unicycle.get_pos
get_pos(v) == <<v.x, v.y>>

\* Unicycle.set_state: the box is not touched
set_state(v, x, y, theta, speed) ==
  [v EXCEPT !.x = x, !.y = y, !.heading = theta, !.speed = speed]

(***************************************************************************)
(* npc.py: NPCManager.  The actions argument of step is a record           *)
(*   given   FALSE for actions = None                                      *)
(*   list    the list of actions, each a list of numbers                   *)
(***************************************************************************)
\* [0, 0] * k / [0, 0, 0, 0] * k: a list of zeros, empty when k is not positive
RECURSIVE ZeroList(_)
ZeroList(m) == IF m <= 0 THEN <<>> ELSE Append(ZeroList(m - 1), 0)

NoActions == [given |-> FALSE, list |-> <<>>]

\* NPCManager.step, the actions as prepared for the move loop: the default, the crop
\* to the roster length and the element appended as padding
PreparedActions(n, actions) ==
  LET a0 == IF actions.given THEN actions.list ELSE << ZeroList(2 * n) >>
      cropped == SubSeq(a0, 1, Min2(n, Len(a0)))
  IN  cropped \o << ZeroList(2 * (n - Len(cropped))) >>

\* NPCManager.step, the move loop: zip(self.npcs, actions) stops at the shorter of the two
\* (every action it reaches has at least the two elements input_to_action reads)
ZipLen(npcs, acts) == Min2(Len(npcs), Len(acts))

\* NPCManager.step, the move loop from pair i on, k pairs being moved: the roster after it
RECURSIVE MoveFrom(_, _, _, _)
MoveFrom(npcs, acts, i, k) ==
  IF i > Len(npcs) THEN <<>>
  ELSE << IF i <= k
          THEN Move(npcs[i], input_to_action(acts[i])[1], input_to_action(acts[i])[2])
          ELSE npcs[i] >> \o MoveFrom(npcs, acts, i + 1, k)

\* NPCManager.step, the move loop: the roster after it
MoveAll(npcs, acts) == MoveFrom(npcs, acts, 1, ZipLen(npcs, acts))

\* the calls of npc.move the move loop makes, in order: the roster index, the arguments,
\* the NPC's y, speed and flags when move starts, and the control that reaches Unicycle.move
MoveCall(npc, i, a) ==
  [index |-> i, acc |-> a[1], theta |-> a[2],
   kind |-> npc.kind, y |-> npc.y, speed |-> npc.speed, crash |-> npc.crash,
   crashing |-> npc.crashing,
   control |-> IF npc.kind = "obstacle" THEN ObstacleControl(npc, a[1], a[2]) ELSE a]

RECURSIVE MoveLogFrom(_, _, _, _)
MoveLogFrom(npcs, acts, i, k) ==
  IF i > k THEN <<>>
  ELSE << MoveCall(npcs[i], i, input_to_action(acts[i])) >>
         \o MoveLogFrom(npcs, acts, i + 1, k)

MoveLog(npcs, acts) == MoveLogFrom(npcs, acts, 1, ZipLen(npcs, acts))

\* NPCManager.check_collision
check_collision(npcs, bbox) == \E i \in 1..Len(npcs) : overlaps(npcs[i].box, bbox)

\* a variant of not_full that lets a full roster take one more NPC
NotFullOrEqual(npcs, max) == Len(npcs) <= max

\* NPCManager.step: not_full
NotFull(npcs, max) == Len(npcs) < max

\* NPCManager.step: the NPC constructed at start number pos
SpawnAt(pos) ==
  NewAgent(Starts[pos].position[1], Starts[pos].position[2],
           DIRS[Starts[pos].orientation], TrafficSpeed, "npc")

\* NPCManager.step: whether the constructed NPC is appended
SpawnAccepted(npcs, new, agent_bb) ==
  ~check_collision(npcs, new.box) /\ ~overlaps(new.box, agent_bb)

\* a variant of the spawn that puts the new NPC at the front of the roster
SpawnInFront(npcs, max, agent_bb, prob_new, pos) ==
  IF prob_new /\ NotFull(npcs, max) /\ Len(Starts) > 0
  THEN IF SpawnAccepted(npcs, SpawnAt(pos), agent_bb)
       THEN <<SpawnAt(pos)>> \o npcs ELSE npcs
  ELSE npcs

\* NPCManager.step, the spawn: prob_new is the draw against NEW, pos the start drawn
Spawn(npcs, max, agent_bb, prob_new, pos) ==
  IF prob_new /\ NotFull(npcs, max) /\ Len(Starts) > 0
  THEN IF SpawnAccepted(npcs, SpawnAt(pos), agent_bb)
       THEN Append(npcs, SpawnAt(pos)) ELSE npcs
  ELSE npcs

\* del self.npcs[i]
DelAt(list, i) == SubSeq(list, 1, i - 1) \o SubSeq(list, i + 1, Len(list))

\* a variant of the removal loop that does not record that the Obstacle has gone
RECURSIVE RemoveScanNoFlag(_, _, _)
RemoveScanNoFlag(list, i, gone) ==
  IF i > Len(list) THEN [npcs |-> list, gone |-> gone]
  ELSE IF ~in_map(list[i], Width, Height)
       THEN RemoveScanNoFlag(DelAt(list, i), i + 1, gone)
       ELSE RemoveScanNoFlag(list, i + 1, gone)

\* a variant of the removal loop that drops the last entry of the roster for each NPC it
\* finds outside the map
RECURSIVE RemoveScanPop(_, _, _)
RemoveScanPop(list, i, gone) ==
  IF i > Len(list) THEN [npcs |-> list, gone |-> gone]
  ELSE IF ~in_map(list[i], Width, Height)
       THEN RemoveScanPop(DelAt(list, Len(list)), i + 1, gone \/ list[i].kind = "obstacle")
       ELSE RemoveScanPop(list, i + 1, gone)

\* NPCManager.step, the removal loop: enumerate(self.npcs) visits index i (from 1 here)
\* of the list as it is at that moment, and a del moves the later entries down by one
RECURSIVE RemoveScan(_, _, _)
RemoveScan(list, i, gone) ==
  IF i > Len(list) THEN [npcs |-> list, gone |-> gone]
  ELSE IF ~in_map(list[i], Width, Height)
       THEN RemoveScan(DelAt(list, i), i + 1, gone \/ list[i].kind = "obstacle")
       ELSE RemoveScan(list, i + 1, gone)

NoSpawn == [added |-> FALSE, new |-> <<>>, others |-> <<>>, agent_bb |-> <<>>]

NoTrace == [called |-> FALSE, n |-> 0, actions |-> NoActions, log |-> <<>>,
            spawn |-> NoSpawn]

\* NPCManager.step: the roster and obstacle_gone after it, and the record of the call:
\* the roster length at its start, its actions argument, its move calls, and the NPC it
\* added with the roster and the agent box that NPC was checked against
ManagerStep(npcs, max, gone, agent_bb, actions, prob_new, pos) ==
  LET acts == PreparedActions(Len(npcs), actions)
      moved == MoveAll(npcs, acts)
      spawned == Spawn(moved, max, agent_bb, prob_new, pos)
      r == RemoveScan(spawned, 1, gone)
      called == [called |-> TRUE, n |-> Len(npcs), actions |-> actions,
                 log |-> MoveLog(npcs, acts), spawn |-> NoSpawn]
  IN  [npcs |-> r.npcs, gone |-> r.gone,
       trace |-> [called EXCEPT
                    !.spawn = IF Len(spawned) > Len(moved)
                              THEN [added |-> TRUE, new |-> spawned[Len(spawned)],
                                    others |-> moved, agent_bb |-> agent_bb]
                              ELSE NoSpawn]]

\* a variant of reset that clears the roster and builds no Obstacle
ManagerResetNoObstacle(use_obstacle, crash) == <<>>

\* NPCManager.reset: the roster after it; crash is the new Obstacle's draw
ManagerReset(use_obstacle, crash) ==
  IF use_obstacle THEN << NewObstacle(crash) >> ELSE <<>>

\* NPCManager.get_obstacle: the first NPC of the roster, or None
get_obstacle(use_obstacle, gone, npcs) ==
  IF use_obstacle /\ ~gone
  THEN [found |-> TRUE, npc |-> npcs[1]]
  ELSE [found |-> FALSE, npc |-> <<>>]

\* a variant of the scan that lets a later NPC at the same distance win
RECURSIVE ClosestFromLastWins(_, _, _, _)
ClosestFromLastWins(npcs, pos, i, min_idx) ==
  IF i > Len(npcs) THEN min_idx
  ELSE IF DistSq(pos, get_pos(npcs[i])) <= DistSq(pos, get_pos(npcs[min_idx]))
       THEN ClosestFromLastWins(npcs, pos, i + 1, i)
       ELSE ClosestFromLastWins(npcs, pos, i + 1, min_idx)

\* NPCManager.get_closest, the scan from index i on: the index of the closest NPC found,
\* min_idx being the closest one before i (distances compared through their squares)
RECURSIVE ClosestFrom(_, _, _, _)
ClosestFrom(npcs, pos, i, min_idx) ==
  IF i > Len(npcs) THEN min_idx
  ELSE IF DistSq(pos, get_pos(npcs[i])) < DistSq(pos, get_pos(npcs[min_idx]))
       THEN ClosestFrom(npcs, pos, i + 1, i)
       ELSE ClosestFrom(npcs, pos, i + 1, min_idx)

\* NPCManager.get_closest: None on an empty roster, otherwise the closest NPC (index is
\* its place in the roster) and its distance (kept as its square)
get_closest(npcs, pos) ==
  IF Len(npcs) = 0
  THEN [found |-> FALSE, index |-> 0, npc |-> <<>>, dist_sq |-> 0]
  ELSE [found |-> TRUE, index |-> ClosestFrom(npcs, pos, 2, 1),
        npc |-> npcs[ClosestFrom(npcs, pos, 2, 1)],
        dist_sq |-> DistSq(pos, get_pos(npcs[ClosestFrom(npcs, pos, 2, 1)]))]

(***************************************************************************)
(* monicars.py: Environment                                                *)
(***************************************************************************)
\* a variant of _keep_agent_in_map that limits x only
KeepAgentInMapXOnly(a) == [a EXCEPT !.x = limit(a.x, 0, Width)]

\* Environment._keep_agent_in_map: set_x and set_y leave the box where it is
KeepAgentInMap(a) ==
  [a EXCEPT !.x = limit(a.x, 0, Width), !.y = limit(a.y, 0, Height)]

\* Agent.reset (noise off): back to the initial state, the box moved with it
AgentReset(a) ==
  [set_state(a, AgentX, AgentY, AgentTheta, AgentSpeed)
     EXCEPT !.box = move_to(a.box, AgentX, AgentY, AgentTheta)]

\* the states of the NPCs of a roster, one after the other
RECURSIVE NpcStates(_)
NpcStates(list) ==
  IF list = <<>> THEN <<>> ELSE get_state(Head(list)) \o NpcStates(Tail(list))

\* a variant of _get_observation that puts the padding before the NPC states
GetObservationPadFirst(a, list, max) ==
  get_state(a) \o ZeroList(4 * (max - Len(list))) \o NpcStates(list)

\* a variant of _get_observation that pads with one zero per free slot
GetObservationShortPad(a, list, max) ==
  get_state(a) \o NpcStates(list) \o ZeroList(max - Len(list))

\* Environment._get_observation (vision off, no rounding, the default feature function)
GetObservation(a, list, max) ==
  get_state(a) \o NpcStates(list) \o ZeroList(4 * (max - Len(list)))

\* Environment.collided
collided(a, list) == check_collision(list, a.box)

\* a variant of _get_done that leaves the collision term out
GetDoneOutsideOnly(a, list) == ~in_map(a, Width, Height)

\* a variant of _get_done whose collision term looks at the first NPC only
GetDoneFirstNpcOnly(a, list) ==
  ~in_map(a, Width, Height) \/ (Len(list) >= 1 /\ overlaps(list[1].box, a.box))

\* Environment._get_done
GetDone(a, list) == ~in_map(a, Width, Height) \/ collided(a, list)

\* Environment.set_state: the agent and, when there is one, the first NPC of the roster
SetAgentState(a, x_0) == set_state(a, x_0[1], x_0[2], x_0[3], x_0[4])

SetNpcState(list, x_0) ==
  IF Len(list) > 0
  THEN [list EXCEPT ![1] = set_state(list[1], x_0[5], x_0[6], x_0[7], x_0[8])]
  ELSE list

\* Environment.step, "stuck = [self.npc_manager.npcs[0].crash]": what evaluating it does
StuckRaises(use_obstacle, list) ==
  IF ~use_obstacle THEN "none"
  ELSE IF Len(list) = 0 THEN "IndexError"
  ELSE IF list[1].kind # "obstacle" THEN "AttributeError"
  ELSE "none"

\* Environment.step, the return statement: stuck is bound only when an Obstacle is configured
ReturnRaises(use_obstacle) == IF use_obstacle THEN "none" ELSE "UnboundLocalError"

\* Environment.step, the flag appended for the Obstacle
Stuck(list) == list[1].crash

(***************************************************************************)
(* State                                                                   *)
(***************************************************************************)
VARIABLES
  obstacle,       \* Environment.obstacle / NPCManager.obstacle: an Obstacle is configured
  MAX,            \* NPCManager.MAX of the manager instance
  agent,          \* Environment.agent
  npcs,           \* NPCManager.npcs, the roster
  obstacle_gone,  \* NPCManager.obstacle_gone
  ret,            \* the outcome of the last reset or step call
  trace,          \* what the last NPCManager.step call did (its move calls, its spawn)
  ticks,          \* step calls so far
  resets          \* reset calls so far

vars == <<obstacle, MAX, agent, npcs, obstacle_gone, ret, trace, ticks, resets>>

(***************************************************************************)
(* Inputs                                                                  *)
(***************************************************************************)
\* actions passed to Environment.step: the zero action, an acceleration, and an action
\* out of range in both components
AgentActions == { <<0, 0>>, <<1, 0>>, <<2, -2>> }

\* single NPC actions: a deceleration and a steering command
NpcActs == { <<-1, 0>>, <<0, 1>> }

\* the actions argument of NPCManager.step: None, or a list of 0 to 2 actions
AllNpcActions ==
  {NoActions} \cup
  {[given |-> TRUE, list |-> l] :
     l \in {<<>>} \cup {<<a>> : a \in NpcActs} \cup {<<a, b>> : a, b \in NpcActs}}

\* the npc_action argument of Environment.step
EnvNpcActions ==
  { NoActions, [given |-> TRUE, list |-> << <<0, 0>>, <<-1, 0>> >>] }

\* the state argument of Environment.reset: None, or an 8-vector
ResetStates ==
  { [given |-> FALSE, x_0 |-> <<>>],
    [given |-> TRUE, x_0 |-> <<Width + 1, 4, 0, 0, 3, 5, 0, 1>>],
    [given |-> TRUE, x_0 |-> <<3, 3, 1, 0, 3, 5, 0, 0>>] }

\* the draws of a step: whether random() < NEW, and the start drawn by randint
SpawnDraws == {<<FALSE, 1>>} \cup {<<TRUE, pos>> : pos \in 1..Len(Starts)}

(***************************************************************************)
(* Construction                                                            *)
(***************************************************************************)
\* NPCManager.__init__: MAX is the class's cap, plus one with an Obstacle
ManagerMax(use_obstacle) == IF use_obstacle THEN MaxCars + 1 ELSE MaxCars

\* the outcome record of a call
Outcome(op, raised, obs, out, done, collision) ==
  [op |-> op, raised |-> raised, obs |-> obs, out |-> out, done |-> done,
   collision |-> collision]

\* Environment.__init__: the agent at its start pose, kept in the map; the manager with
\* its Obstacle (whose crash flag is drawn); observation_n computed from an observation
Init ==
  /\ obstacle \in BOOLEAN
  /\ MAX = ManagerMax(obstacle)
  /\ agent = KeepAgentInMap(NewAgent(AgentX, AgentY, AgentTheta, AgentSpeed, "agent"))
  /\ \E crash \in BOOLEAN : npcs = ManagerReset(obstacle, crash)
  /\ obstacle_gone = FALSE
  /\ ret = Outcome("init", "none", GetObservation(agent, npcs, MAX), <<>>, FALSE, FALSE)
  /\ trace = NoTrace
  /\ ticks = 0
  /\ resets = 0

(***************************************************************************)
(* Environment.reset(state)                                                *)
(***************************************************************************)
\* a variant of reset that keeps the agent in the map after the state is written
ResetResultClampLast(a, use_obstacle, state, crash) ==
  LET cleared == ManagerReset(use_obstacle, crash)
      a0 == AgentReset(a)
  IN  [agent |-> KeepAgentInMap(IF state.given THEN SetAgentState(a0, state.x_0) ELSE a0),
       npcs |-> IF state.given THEN SetNpcState(cleared, state.x_0) ELSE cleared]

\* Environment.reset: the agent and the roster after it
ResetResult(a, use_obstacle, state, crash) ==
  LET cleared == ManagerReset(use_obstacle, crash)
      a0 == KeepAgentInMap(AgentReset(a))
  IN  [agent |-> IF state.given THEN SetAgentState(a0, state.x_0) ELSE a0,
       npcs |-> IF state.given THEN SetNpcState(cleared, state.x_0) ELSE cleared]

EnvReset(state, crash) ==
  /\ resets < MaxResets
  /\ \E r \in {ResetResult(agent, obstacle, state, crash)} :
       /\ agent' = r.agent
       /\ npcs' = r.npcs
       /\ ret' = Outcome("reset", "none", GetObservation(r.agent, r.npcs, MAX), <<>>,
                         FALSE, FALSE)
  /\ obstacle_gone' = IF obstacle THEN FALSE ELSE obstacle_gone
  /\ trace' = NoTrace
  /\ resets' = resets + 1
  /\ UNCHANGED <<obstacle, MAX, ticks>>

(***************************************************************************)
(* Environment.step(action, npc_action)                                    *)
(***************************************************************************)
\* a variant of the agent's move that leaves the speed limit out
StepAgentNoSpeedLimit(a, action) ==
  AgentMove(a, input_to_action(action)[1], input_to_action(action)[2])

\* the agent after "Move the agent" and "Impose a limit on the agent's speed"
StepAgent(a, action) ==
  LET c == input_to_action(action)
      moved == AgentMove(a, c[1], c[2])
  IN  [moved EXCEPT !.speed = limit(moved.speed, -MaxSpeed, MaxSpeed)]

\* Environment.step after the agent has moved to a1 and the manager's step has returned m:
\* the observation, done, the position clamp, the flags and the return
StepOutcome(a1, m, use_obstacle, max) ==
  LET obs == GetObservation(a1, m.npcs, max)
      done == GetDone(a1, m.npcs)
      a2 == KeepAgentInMap(a1)
      collision == collided(a2, m.npcs)
      stuckErr == StuckRaises(use_obstacle, m.npcs)
  IN  [agent |-> a2,
       ret |-> IF stuckErr # "none"
               THEN Outcome("step", stuckErr, obs, <<>>, done, collision)
               ELSE IF ReturnRaises(use_obstacle) # "none"
               THEN Outcome("step", ReturnRaises(use_obstacle), obs, <<>>, done, collision)
               ELSE Outcome("step", "none", obs,
                            obs \o <<collision>> \o <<Stuck(m.npcs)>>, done, collision)]

EnvStep(action, npc_action, prob_new, pos) ==
  /\ ticks < MaxTicks
  /\ \E a1 \in {StepAgent(agent, action)} :
       \E m \in {ManagerStep(npcs, MAX, obstacle_gone, a1.box, npc_action,
                             prob_new, pos)} :
         \E r \in {StepOutcome(a1, m, obstacle, MAX)} :
           /\ trace' = m.trace
           /\ npcs' = m.npcs
           /\ obstacle_gone' = m.gone
           /\ agent' = r.agent
           /\ ret' = r.ret
  /\ ticks' = ticks + 1
  /\ UNCHANGED <<obstacle, MAX, resets>>

Next ==
  \/ \E state \in ResetStates, crash \in BOOLEAN : EnvReset(state, crash)
  \/ \E action \in AgentActions, npc_action \in EnvNpcActions, d \in SpawnDraws :
       EnvStep(action, npc_action, d[1], d[2])

Spec == Init /\ [][Next]_vars

(***************************************************************************)
(* The traffic manager on its own: NPCManager.reset and NPCManager.step    *)
(* called directly, with the agent's box as the agent_bb argument          *)
(***************************************************************************)
MgrReset(crash) ==
  /\ resets < MaxResets
  /\ npcs' = ManagerReset(obstacle, crash)
  /\ obstacle_gone' = IF obstacle THEN FALSE ELSE obstacle_gone
  /\ trace' = NoTrace
  /\ resets' = resets + 1
  /\ UNCHANGED <<obstacle, MAX, agent, ret, ticks>>

MgrStep(actions, prob_new, pos) ==
  /\ ticks < MaxTicks
  /\ \E m \in {ManagerStep(npcs, MAX, obstacle_gone, agent.box, actions, prob_new, pos)} :
       /\ npcs' = m.npcs
       /\ obstacle_gone' = m.gone
       /\ trace' = m.trace
  /\ ticks' = ticks + 1
  /\ UNCHANGED <<obstacle, MAX, agent, ret, resets>>

NextTraffic ==
  \/ \E crash \in BOOLEAN : MgrReset(crash)
  \/ \E actions \in AllNpcActions, d \in SpawnDraws : MgrStep(actions, d[1], d[2])

SpecTraffic == Init /\ [][NextTraffic]_vars

(***************************************************************************)
(* The traffic manager with its queries: get_closest called on the rosters *)
(* that reset and step produce                                             *)
(***************************************************************************)
\* the positions handed to get_closest
ClosestPositions == {1, 3, 5, 7} \X {2, 4, 6, 8}

\* NPCManager.get_closest(pos): changes nothing in the manager
MgrGetClosest(pos) ==
  /\ ret.op = "init"
  /\ ret' = [op |-> "get_closest", pos |-> pos, result |-> get_closest(npcs, pos)]
  /\ UNCHANGED <<obstacle, MAX, agent, npcs, obstacle_gone, trace, ticks, resets>>

\* resets and steps, and a query on the roster they have produced
NextQueries ==
  \/ ret.op = "init" /\ NextTraffic
  \/ \E pos \in ClosestPositions : MgrGetClosest(pos)

SpecQueries == Init /\ [][NextQueries]_vars

(***************************************************************************)
(* The traffic manager stepped for ever: step is called again and again,   *)
(* and one NPC that is outside the map when a step returns is followed     *)
(* until it is removed or is inside the map again                          *)
(***************************************************************************)
\* the roster with a mark on the entry at index t
Marked(list, t) ==
  [k \in 1..Len(list) |->
     [f \in DOMAIN list[k] \cup {"followed"} |->
        IF f = "followed" THEN k = t ELSE list[k][f]]]

\* the removal loop seen from the entry at index t of the list: the index that entry
\* has when the loop ends, 0 when the loop has deleted it
FollowScan(list, t) ==
  LET left == RemoveScan(Marked(list, t), 1, FALSE).npcs
      hits == {k \in 1..Len(left) : left[k].followed}
  IN  IF hits = {} THEN 0 ELSE CHOOSE k \in hits : TRUE

\* the record of the NPC followed: its index in the roster, 0 when none is followed
Follow(index) == [op |-> "follow", index |-> index]

Followed == IF ret.op = "follow" THEN ret.index ELSE 0

\* the indices of the NPCs of a roster that are outside the map
OutsideAt(list) == {k \in 1..Len(list) : ~in_map(list[k], Width, Height)}

\* the index followed after a step that ends with the record m: the followed NPC
\* traced through the removal loop, and followed no longer once it is inside the map;
\* when none is followed, any NPC left outside the map by this step may be picked, as
\* long as there are as many steps to come as the roster is long
FollowNext(m, actions) ==
  LET moved == MoveAll(npcs, PreparedActions(Len(npcs), actions))
      scanned == IF m.trace.spawn.added THEN Append(moved, m.trace.spawn.new) ELSE moved
      index == FollowScan(scanned, Followed)
  IN  IF Followed = 0
      THEN IF ticks + 1 + Len(m.npcs) <= LiveTicks THEN {0} \cup OutsideAt(m.npcs) ELSE {0}
      ELSE IF index \in OutsideAt(m.npcs) THEN {index}
      ELSE {0}

\* NPCManager.step, and the choice of the NPC followed after it
LiveStep(actions, prob_new, pos) ==
  /\ ticks < LiveTicks
  /\ \E m \in {ManagerStep(npcs, MAX, obstacle_gone, agent.box, actions, prob_new, pos)} :
       /\ npcs' = m.npcs
       /\ obstacle_gone' = m.gone
       /\ \E index \in FollowNext(m, actions) : ret' = Follow(index)
  /\ ticks' = ticks + 1
  /\ UNCHANGED <<obstacle, MAX, agent, trace, resets>>

\* NPCManager.reset: the roster is rebuilt and no NPC is followed
LiveReset(crash) ==
  /\ resets < MaxResets
  /\ npcs' = ManagerReset(obstacle, crash)
  /\ obstacle_gone' = IF obstacle THEN FALSE ELSE obstacle_gone
  /\ ret' = Follow(0)
  /\ resets' = resets + 1
  /\ UNCHANGED <<obstacle, MAX, agent, trace, ticks>>

LiveSteps ==
  \E actions \in AllNpcActions, d \in SpawnDraws : LiveStep(actions, d[1], d[2])

NextLive ==
  \/ \E crash \in BOOLEAN : LiveReset(crash)
  \/ LiveSteps

\* a call of step, seen in the count of calls alone: every call of step is such a step,
\* and one is possible whenever LiveSteps is
StepCalled == ticks < LiveTicks /\ ticks' = ticks + 1

\* step keeps being called, up to the number of calls explored
SpecLive == Init /\ [][NextLive]_vars /\ WF_ticks(StepCalled)

(***************************************************************************)
(* Zones: the lanes and intersections of the map description, and get_zone *)
(* called on an environment whose agent has been placed by reset(state)    *)
(***************************************************************************)
\* description["zones"]: two lanes side by side from the left edge of the map, crossed
\* by one intersection, and a second intersection that reaches the right edge
Zones ==
  << [label |-> "intersection", corner |-> <<0, 2>>, size |-> <<8, 2>>],
     [label |-> "lane", corner |-> <<0, 0>>, size |-> <<3, 8>>],
     [label |-> "lane", corner |-> <<3, 0>>, size |-> <<3, 8>>],
     [label |-> "intersection", corner |-> <<1, 5>>, size |-> <<7, 2>>] >>

\* Lane.__init__ and Intersection.__init__: the four corners handed to Rectangle
ZoneBox(corner, size) ==
  RectangleInit(<< corner,
                   <<corner[1] + size[1], corner[2]>>,
                   <<corner[1] + size[1], corner[2] + size[2]>>,
                   <<corner[1], corner[2] + size[2]>> >>).points

\* Environment._create_zones: the zones of one label in the order of the description,
\* numbered from 0
create_zones(label) ==
  LET sel == SelectSeq(Zones, LAMBDA z : z.label = label)
  IN  [i \in 1..Len(sel) |-> [id |-> i - 1, box |-> ZoneBox(sel[i].corner, sel[i].size)]]

lanes == create_zones("lane")

intersections == create_zones("intersection")

\* the loop of _get_lane and of _get_intersection: the id of the first zone that reports
\* the position inside, None (here -1) when no zone does
RECURSIVE FirstInside(_, _, _)
FirstInside(zones, pos, i) ==
  IF i > Len(zones) THEN -1
  ELSE IF is_inside(zones[i].box, pos) THEN zones[i].id
  ELSE FirstInside(zones, pos, i + 1)

\* Environment._get_lane
get_lane(a) == FirstInside(lanes, get_pos(a), 1)

\* Environment._get_intersection
get_intersection(a) == FirstInside(intersections, get_pos(a), 1)

\* colour channels are kept in twentieths of the full scale
ColourUnit == 20

\* util.is_close(x, y) with the default tolerance
is_close(x, y) == Abs(x - y) * 100 <= 5 * ColourUnit

\* the pixels of the map image under the agent
Pixels ==
  { <<10, 10, 10>>, <<0, 0, 0>>, <<20, 20, 20>>, <<2, 2, 2>>, <<18, 18, 18>>,
    <<10, 12, 10>>, <<4, 14, 4>>, <<16, 4, 4>> }

\* View.get_colour(x, y): black at and beyond the right and lower limits of the map,
\* the pixel of the image elsewhere
get_colour(pixel, x, y) ==
  IF x >= Width \/ y >= Height THEN <<0, 0, 0>> ELSE pixel

\* Environment._check_pixels: the name of the colour under the agent
check_pixels(a, pixel) ==
  LET c == get_colour(pixel, a.x, a.y)
      r == c[1]
      g == c[2]
      b == c[3]
  IN  IF is_close(r, g) /\ is_close(g, b)
      THEN IF r * 10 < 9 * ColourUnit /\ r * 10 > ColourUnit THEN "grey"
           ELSE IF r * 10 <= ColourUnit THEN "black"
           ELSE "white"
      ELSE IF (g - r) * 10 > 2 * ColourUnit /\ (g - b) * 10 > 2 * ColourUnit THEN "green"
      ELSE "unknown"

\* the pair that get_zone returns
Zone(type, id) == [type |-> type, id |-> id]

\* Environment.get_zone
get_zone(a, pixel) ==
  IF get_lane(a) # -1 THEN Zone("lane", get_lane(a))
  ELSE IF get_intersection(a) # -1 THEN Zone("intersection", get_intersection(a))
  ELSE IF check_pixels(a, pixel) \in {"grey", "white"} THEN Zone("on_road", 0)
  ELSE Zone("off_road", 0)

\* the states handed to reset: the agent anywhere on the grid of the map, at rest and
\* heading along y, and one NPC state
ZoneStates ==
  { [given |-> TRUE, x_0 |-> <<x, y, 0, 0, 3, 5, 0, 0>>] : x \in 0..Width, y \in 0..Height }

\* Environment.get_zone(): changes nothing in the environment
EnvGetZone(pixel) ==
  /\ ret.op \in {"init", "reset"}
  /\ ret' = [op |-> "get_zone", pixel |-> pixel, result |-> get_zone(agent, pixel)]
  /\ UNCHANGED <<obstacle, MAX, agent, npcs, obstacle_gone, trace, ticks, resets>>

\* a reset that places the agent, and a query of its zone
NextZones ==
  \/ \E state \in ZoneStates, crash \in BOOLEAN : ret.op = "init" /\ EnvReset(state, crash)
  \/ \E pixel \in Pixels : EnvGetZone(pixel)

SpecZones == Init /\ [][NextZones]_vars

(***************************************************************************)
(* Motion: Agent.move called directly on a vehicle built at a pose         *)
(* anywhere in the map, with any speed up to the limit                     *)
(***************************************************************************)
\* the states of the vehicle before the first move: x, y, heading, speed
MotionStates == (0..Width) \X (0..Height) \X {-2, -1, 0, 1} \X (0..MaxSpeed)

InitMotion ==
  /\ obstacle = FALSE
  /\ MAX = ManagerMax(FALSE)
  /\ \E s \in MotionStates : agent = NewAgent(s[1], s[2], s[3], s[4], "agent")
  /\ npcs = << >>
  /\ obstacle_gone = FALSE
  /\ ret = [op |-> "init", before |-> <<>>, acc |-> 0, steer |-> 0, result |-> <<>>]
  /\ trace = NoTrace
  /\ ticks = 0
  /\ resets = 0

\* agent.move(acc, heading): Unicycle.move, then the bounding box follows; the state
\* before the call and the returned (delta_x, delta_y, steerAngle) are kept
MotionMove(acc, steer) ==
  /\ ticks < MotionMoves
  /\ agent' = AgentMove(agent, acc, steer)
  /\ ret' = [op |-> "move", before |-> get_state(agent), acc |-> acc, steer |-> steer,
             result |-> UnicycleMove(agent, acc, steer).delta]
  /\ ticks' = ticks + 1
  /\ UNCHANGED <<obstacle, MAX, npcs, obstacle_gone, trace, resets>>

NextMotion == \E acc \in (-MaxAcc)..MaxAcc, steer \in (-MaxAngle)..MaxAngle : MotionMove(acc, steer)

SpecMotion == InitMotion /\ [][NextMotion]_vars

(***************************************************************************)
(* util.py on its own: normalize_angle and the methods of Rectangle called *)
(* directly, the latter on the bounding boxes of two vehicles built at     *)
(* poses anywhere in the map                                               *)
(***************************************************************************)
\* the poses (x, y, theta) of the first vehicle: every grid position of the map, upright
\* or turned a quarter
GeoPoses == (0..Width) \X (0..Height) \X {0, 1}

\* the poses of the second vehicle
GeoOtherPoses == {3, 5, 7} \X {4, 5} \X {0, 1}

\* the points handed to is_inside
GeoPoints == (0..GeoMax) \X (0..GeoMax)

\* the angles handed to normalize_angle, in quarter turns
GeoAngles == (-GeoTurns)..GeoTurns

\* the points a points argument of Rectangle(...) is made of: with one, two and three
\* elements
GeoShapes == { <<CarH>>, <<0, 0>>, <<CarH, CarW>>, <<0, CarW, 0>> }

\* the points arguments handed to Rectangle(...): every list of four of those points,
\* and lists of none, three and five two-element points
GeoPointLists ==
  { <<a, b, c, d>> : a \in GeoShapes, b \in GeoShapes, c \in GeoShapes, d \in GeoShapes }
    \cup { <<>>, << <<0, 0>>, <<0, CarW>>, <<CarH, CarW>> >>,
           InitBox \o << <<0, 0>> >> }

\* the targets (x, y, theta) handed to move_to
GeoTargets == {1, 6} \X {2, 7} \X {-1, 0, 1, 2}

\* the record of a call: its name, its argument and the value returned (for a method
\* that changes the rectangle in place: the corners it had when the call was made)
GeoCall(op, pt, result) == [op |-> op, pt |-> pt, result |-> result]

\* two vehicles constructed at drawn poses (Agent.__init__ builds and places the box)
InitGeometry ==
  /\ obstacle = FALSE
  /\ MAX = ManagerMax(FALSE)
  /\ \E p \in GeoPoses : agent = NewAgent(p[1], p[2], p[3], 0, "agent")
  /\ \E p \in GeoOtherPoses : npcs = << NewAgent(p[1], p[2], p[3], 0, "npc") >>
  /\ obstacle_gone = FALSE
  /\ ret = GeoCall("init", <<>>, FALSE)
  /\ trace = NoTrace
  /\ ticks = 0
  /\ resets = 0

\* agent.bounding_box.is_inside(pt)
GeoIsInside(pt) ==
  /\ ticks < GeoCalls
  /\ ret' = GeoCall("is_inside", pt, is_inside(agent.box, pt))
  /\ ticks' = ticks + 1
  /\ UNCHANGED <<obstacle, MAX, agent, npcs, obstacle_gone, trace, resets>>

\* agent.bounding_box.overlaps(npc.bounding_box)
GeoOverlaps ==
  /\ ticks < GeoCalls
  /\ ret' = GeoCall("overlaps", <<>>, overlaps(agent.box, npcs[1].box))
  /\ ticks' = ticks + 1
  /\ UNCHANGED <<obstacle, MAX, agent, npcs, obstacle_gone, trace, resets>>

\* util.normalize_angle(angle)
GeoNormalizeAngle(angle) ==
  /\ ticks < GeoCalls
  /\ ret' = GeoCall("normalize_angle", <<angle>>, normalize_angle(angle))
  /\ ticks' = ticks + 1
  /\ UNCHANGED <<obstacle, MAX, agent, npcs, obstacle_gone, trace, resets>>

\* Rectangle(points)
GeoRectangle(points) ==
  /\ ticks < GeoCalls
  /\ ret' = GeoCall("Rectangle", points, RectangleInit(points))
  /\ ticks' = ticks + 1
  /\ UNCHANGED <<obstacle, MAX, agent, npcs, obstacle_gone, trace, resets>>

\* agent.bounding_box.move_to(x, y, theta)
GeoMoveTo(x, y, theta) ==
  /\ ticks < GeoCalls
  /\ agent' = [agent EXCEPT !.box = move_to(agent.box, x, y, theta)]
  /\ ret' = GeoCall("move_to", <<x, y, theta>>, agent.box)
  /\ ticks' = ticks + 1
  /\ UNCHANGED <<obstacle, MAX, npcs, obstacle_gone, trace, resets>>

\* agent.bounding_box.rotate(theta)
GeoRotate(theta) ==
  /\ ticks < GeoCalls
  /\ agent' = [agent EXCEPT !.box = rotate(agent.box, theta)]
  /\ ret' = GeoCall("rotate", <<theta>>, agent.box)
  /\ ticks' = ticks + 1
  /\ UNCHANGED <<obstacle, MAX, npcs, obstacle_gone, trace, resets>>

NextGeometry ==
  \/ \E pt \in GeoPoints : GeoIsInside(pt)
  \/ GeoOverlaps
  \/ \E angle \in GeoAngles : GeoNormalizeAngle(angle)
  \/ \E points \in GeoPointLists : GeoRectangle(points)
  \/ \E t \in GeoTargets : GeoMoveTo(t[1], t[2], t[3])
  \/ \E theta \in GeoAngles : GeoRotate(theta)

SpecGeometry == InitGeometry /\ [][NextGeometry]_vars

(***************************************************************************)
(* Properties of the traffic manager (checked under SpecTraffic)           *)
(***************************************************************************)
\* C1: after any sequence of NPCManager.reset and NPCManager.step calls, whatever the
\* spawn draws and the supplied actions, the roster never holds more than MAX NPCs.
C1_RosterWithinMax == Len(npcs) <= MAX

\* C1, its case: a step was called on a roster that already held MAX NPCs, and the
\* roster still holds MAX NPCs after it.
C1_FullRosterStepped == trace.called /\ trace.n = MAX /\ Len(npcs) = MAX

\* C2: when NPCManager.step returns, no NPC left in the roster (the Obstacle included)
\* has a position outside [0, width] x [0, height].
C2_NoNpcOutsideAfterStep ==
  trace.called => \A i \in 1..Len(npcs) : in_map(npcs[i], Width, Height)

\* the action NPCManager.step is to apply to the NPC at roster index i: the supplied one
\* when the actions argument has one at that index, the zero action otherwise
ActionFor(actions, i) ==
  IF actions.given /\ i <= Len(actions.list) THEN actions.list[i] ELSE <<0, 0>>

\* C3: in every NPCManager.step call each NPC live at the start of the call has its move
\* invoked exactly once, in roster order, with the action supplied at its index when
\* there is one and with the zero action [0, 0] otherwise.
C3_EveryNpcMovedOnce ==
  trace.called =>
    /\ Len(trace.log) = trace.n
    /\ \A i \in 1..Len(trace.log) :
         /\ trace.log[i].index = i
         /\ <<trace.log[i].acc, trace.log[i].theta>>
              = input_to_action(ActionFor(trace.actions, i))

\* C8, one NPCManager.step call on a roster led by a crash-enabled Obstacle that is
\* already crashing or whose y is at or beyond crash_y when its move is called
C8_Tick ==
  ( /\ trace'.called
    /\ Len(npcs) >= 1
    /\ npcs[1].kind = "obstacle"
    /\ npcs[1].crash
    /\ (npcs[1].crashing \/ npcs[1].y >= CrashY) )
  =>
  ( /\ Len(trace'.log) >= 1
    /\ trace'.log[1].kind = "obstacle"
    /\ (npcs[1].speed > 0 => trace'.log[1].control = <<-CrashDecel, 0>>)
    /\ (Len(npcs') >= 1 /\ npcs'[1].kind = "obstacle" => npcs'[1].crashing) )

\* C8: for a crash-enabled Obstacle, from the first tick in which its y is at or beyond
\* crash_y when move is called it is crashing, and in every later tick whose move starts
\* with speed > 0 the control applied is the fixed deceleration with zero steering,
\* whatever action was supplied for it.
C8_CrashOverride == [][C8_Tick]_vars

\* C8, its case: the move of an Obstacle that was crashing since an earlier tick started
\* with speed > 0 and a supplied action other than the deceleration, and the
\* deceleration was applied.
C8_OverriddenWhileCrashing ==
  /\ trace.called
  /\ Len(trace.log) >= 1
  /\ trace.log[1].kind = "obstacle"
  /\ trace.log[1].crashing
  /\ trace.log[1].speed > 0
  /\ <<trace.log[1].acc, trace.log[1].theta>> # <<-CrashDecel, 0>>
  /\ trace.log[1].control = <<-CrashDecel, 0>>

\* C9: whenever NPCManager.step adds a newly spawned NPC to the roster, that NPC's box
\* overlaps neither the box of an NPC already in the roster nor the agent box passed to
\* step, with Rectangle.overlaps applied in either direction.
C9_SpawnedNpcIsClear ==
  trace.spawn.added =>
    /\ \A i \in 1..Len(trace.spawn.others) :
         /\ ~overlaps(trace.spawn.others[i].box, trace.spawn.new.box)
         /\ ~overlaps(trace.spawn.new.box, trace.spawn.others[i].box)
    /\ ~overlaps(trace.spawn.new.box, trace.spawn.agent_bb)
    /\ ~overlaps(trace.spawn.agent_bb, trace.spawn.new.box)

(***************************************************************************)
(* Properties of the environment (checked under Spec)                      *)
(***************************************************************************)
\* the last call was a step that returned (it did not raise)
StepReturned == ret.op = "step" /\ ret.raised = "none"

C5_NoCallRaises == ret.raised = "none"

\* C6: the vector a step returns is the base observation followed by the collision flag
\* and, exactly when an Obstacle is configured, by the Obstacle's crashing state.
C6_ReturnedVectorLayout ==
  StepReturned =>
    ret.out = ret.obs \o <<ret.collision>>
                \o (IF obstacle THEN <<npcs[1].crashing>> ELSE <<>>)

\* C7: the base observation (what reset returns, what step builds before it appends the
\* flags) has length 4 + 4 * MAX, whatever the number of live NPCs.
C7_BaseObservationLength == Len(ret.obs) = 4 + 4 * MAX

\* C7, its case: a step built its observation with live NPCs in the roster and free
\* slots left to pad.
C7_PaddedWithNpcs ==
  /\ ret.op = "step"
  /\ Len(npcs) >= 2
  /\ Len(npcs) < MAX
  /\ Len(ret.obs) = 4 + 4 * MAX

\* C10: after every Environment.reset and every Environment.step the centroid of the
\* agent's box is the agent's (x, y) and the orientation of the box is the agent's
\* heading (as angles: up to full turns).
C10_BoxFollowsPose ==
  ret.op \in {"reset", "step"} =>
    /\ get_centre(agent.box) = <<agent.x, agent.y>>
    /\ normalize_angle(get_angle(agent.box)) = normalize_angle(agent.heading)

\* actions with an acceleration component inside and outside [-1, 1] (zero steering)
C11_Actions == { <<1, 0>>, <<2, 0>>, <<-2, 0>> }

\* the action with its components clamped to [-1, 1]
C11_Clamped(a) == << limit(a[1], -1, 1), limit(a[2], -1, 1) >>

\* what Environment.step(a) does to the agent and returns, from the current state, with
\* no NPC actions and no spawn
C11_StepWith(a) ==
  StepOutcome(StepAgent(agent, a),
              ManagerStep(npcs, MAX, obstacle_gone, StepAgent(agent, a).box,
                          NoActions, FALSE, 1),
              obstacle, MAX)

\* C11: Environment.step treats an action component outside [-1, 1] like that component
\* clamped to [-1, 1]: in every state, step(a) and step(clamp(a, -1, 1)) give the same
\* agent state, observation and done; and the acceleration and steering applied never
\* exceed max_acc and max_angle in magnitude.
C11_OutOfRangeActionIsClamped ==
  \A a \in C11_Actions :
    /\ C11_StepWith(a) = C11_StepWith(C11_Clamped(a))
    /\ Abs(input_to_action(a)[1]) <= MaxAcc
    /\ Abs(input_to_action(a)[2]) <= MaxAngle

\* C12: after every Environment.step that returns, the agent's position lies inside
\* the map, 0 <= x <= width and 0 <= y <= height.
C12_AgentInsideMapAfterStep ==
  StepReturned => /\ 0 <= agent.x /\ agent.x <= Width
                  /\ 0 <= agent.y /\ agent.y <= Height

\* a step returned an observation with the agent beyond the top edge, and the agent was
\* put back on the edge before the return
C12_ClampedAfterObservation ==
  StepReturned /\ ret.obs[2] > Height /\ agent.y = Height

\* C13: after every Environment.step that returns, the agent's speed lies in
\* [-max_speed, max_speed].
C13_SpeedWithinLimit ==
  StepReturned => -MaxSpeed <= agent.speed /\ agent.speed <= MaxSpeed

\* the agent has travelled further along y than max_speed per tick allows, so a move ran
\* at a higher speed, and the speed it is left with is max_speed
C13_SpeedWasLimited ==
  /\ StepReturned /\ resets = 0
  /\ ret.obs[2] - AgentY > ticks * MaxSpeed
  /\ agent.speed = MaxSpeed

\* C14, one step: the call follows a reset that placed the agent at x = width + 1 with
\* zero speed, and it is given the zero action (the agent's speed stays zero)
C14_Tick ==
  ( /\ ret.op = "reset" /\ agent.x = Width + 1 /\ agent.speed = 0
    /\ ret'.op = "step" /\ agent'.speed = 0 )
  =>
  ( ret'.raised = "none" /\ ret'.done )

\* C14: when reset with a supplied state has placed the agent at x = width + 1 with zero
\* speed, the next step with the zero action returns done = true, whether or not the
\* agent's box overlaps an NPC box.
C14_OutsideAfterResetIsDone == [][C14_Tick]_vars

\* the box of a vehicle where its pose puts it: centred on (x, y), turned to the heading
C15_PoseBox(v) == move_to(v.box, v.x, v.y, v.heading)

\* the least and the greatest coordinate k of the corners of a box
BoxLo(box, k) ==
  CHOOSE m \in {box[i][k] : i \in 1..4} : \A i \in 1..4 : m <= box[i][k]

BoxHi(box, k) ==
  CHOOSE m \in {box[i][k] : i \in 1..4} : \A i \in 1..4 : m >= box[i][k]

\* two axis-parallel boxes share interior points
BoxesIntersect(A, B) ==
  \A k \in 1..2 : Max2(BoxLo(A, k), BoxLo(B, k)) < Min2(BoxHi(A, k), BoxHi(B, k))

\* C15, one step: the call is the first of an episode in which the agent and a single
\* stationary NPC were placed with overlapping boxes, and it is given the zero action
C15_Tick ==
  ( /\ ret.op = "reset" /\ Len(npcs) = 1
    /\ npcs[1].speed = 0 /\ agent.speed = 0
    /\ BoxesIntersect(C15_PoseBox(agent), C15_PoseBox(npcs[1]))
    /\ ret'.op = "step" /\ agent'.speed = 0 )
  =>
  ( ret'.raised = "none" /\ ret'.collision /\ ret'.done )

\* C15: when an episode starts with the agent and a single stationary NPC placed so that
\* their boxes overlap, the first step with the zero action returns collision = true and
\* done = true.
C15_OverlapAtStartIsCollision == [][C15_Tick]_vars

\* C16, one step: the environment has no Obstacle, the roster is empty before and after
\* the call, the agent is at its start (x0, y0, heading 0, speed 0) inside the map and
\* the call is given the zero action
C16_Tick ==
  ( /\ ~obstacle /\ Len(npcs) = 0 /\ Len(npcs') = 0
    /\ get_state(agent) = <<AgentX, AgentY, 0, 0>>
    /\ ret'.op = "step" /\ agent'.speed = 0 )
  =>
  ( /\ ret'.raised = "none" /\ ~ret'.done
    /\ agent'.x = AgentX /\ agent'.y = AgentY )

\* C16: with the agent starting at (x0, y0, heading 0, speed 0) inside the map, no NPC
\* ever present and the zero action every tick, every step returns done = false and
\* leaves the agent at (x0, y0).
C16_IdleAgentStaysAndNotDone == [][C16_Tick]_vars

StrictlyInside(box, pt) ==
  \A k \in 1..2 : BoxLo(box, k) < pt[k] /\ pt[k] < BoxHi(box, k)

\* a point on an edge or at a corner of an axis-parallel box
OnBoundary(box, pt) ==
  /\ \A k \in 1..2 : BoxLo(box, k) <= pt[k] /\ pt[k] <= BoxHi(box, k)
  /\ ~StrictlyInside(box, pt)

\* a point further from an axis-parallel box, along x or along y, than a car is long
FarOutside(box, pt) ==
  \E k \in 1..2 : pt[k] < BoxLo(box, k) - CarH \/ pt[k] > BoxHi(box, k) + CarH

\* C18: for every well-formed rectangle anywhere in the map, those that cover or touch
\* the reference point (0, 0) included, Rectangle.is_inside returns true for the
\* rectangle's centroid and false for every point far outside the rectangle.
C18_CentroidInsideFarOutside ==
  ret.op = "is_inside" =>
    /\ ret.pt = get_centre(agent.box) => ret.result
    /\ FarOutside(agent.box, ret.pt) => ~ret.result

\* C19: containment excludes the boundary: for every rectangle and every point on one of
\* its edges or at one of its corners, on the side nearer to the origin or on the far
\* side, Rectangle.is_inside returns false.
C19_BoundaryIsOutside ==
  (ret.op = "is_inside" /\ OnBoundary(agent.box, ret.pt)) => ~ret.result

\* a corner of box B lies in the interior of box A
CornerInside(A, B) == \E i \in 1..4 : StrictlyInside(A, B[i])

\* two axis-parallel boxes with no point in common
Disjoint(A, B) ==
  \E k \in 1..2 : BoxHi(A, k) < BoxLo(B, k) \/ BoxHi(B, k) < BoxLo(A, k)

\* C20: for any two rectangles A and B, A.overlaps(B) returns true whenever a corner of
\* one of them lies strictly inside the other, and false whenever A and B are disjoint.
C20_OverlapsCornerInsideAndDisjoint ==
  ret.op = "overlaps" =>
    /\ (CornerInside(agent.box, npcs[1].box) \/ CornerInside(npcs[1].box, agent.box))
         => ret.result
    /\ Disjoint(agent.box, npcs[1].box) => ~ret.result

\* C21: normalize_angle returns a value in the half-open interval (-pi, pi] for every
\* input angle, the multiples of 2*pi and the odd multiples of pi included.
C21_NormalizedInHalfOpenInterval ==
  ret.op = "normalize_angle" => (-2 < ret.result /\ ret.result <= 2)

(***************************************************************************)
(* Further properties of the traffic manager (checked under SpecTraffic)   *)
(***************************************************************************)
\* the roster holds the Obstacle
HasObstacle(list) == \E i \in 1..Len(list) : list[i].kind = "obstacle"

\* C22, one call: a step that removes the Obstacle sets obstacle_gone, a step made with
\* obstacle_gone set leaves it set, and with the flag set the roster holds no Obstacle
\* and get_obstacle returns none
C22_Tick ==
  /\ (ticks' # ticks /\ HasObstacle(npcs) /\ ~HasObstacle(npcs')) => obstacle_gone'
  /\ (ticks' # ticks /\ obstacle_gone) => obstacle_gone'
  /\ obstacle_gone' =>
       /\ ~HasObstacle(npcs')
       /\ ~get_obstacle(obstacle', obstacle_gone', npcs').found

\* C22: once the Obstacle has been removed from the roster for leaving the map,
\* obstacle_gone is true and stays true through every later step until the next reset,
\* and get_obstacle returns no obstacle meanwhile; the flag is never true while the
\* Obstacle is in the roster.
C22_ObstacleGoneLatched == [][C22_Tick]_vars

\* a step ran on a roster without the Obstacle after its removal, the flag still set
C22_SteppedWhileGone ==
  /\ obstacle /\ obstacle_gone /\ trace.called
  /\ \A i \in 1..Len(trace.log) : trace.log[i].kind # "obstacle"
  /\ ~get_obstacle(obstacle, obstacle_gone, npcs).found

\* C23, one call: a reset leaves a roster of exactly one NPC, an Obstacle at its
\* configured pose and speed that is not crashing, with obstacle_gone false, when an
\* Obstacle is configured, and an empty roster otherwise; MAX is as before
C23_Tick ==
  resets' # resets =>
    /\ MAX' = MAX
    /\ IF obstacle
       THEN /\ Len(npcs') = 1
            /\ npcs'[1].kind = "obstacle"
            /\ get_state(npcs'[1]) = <<ObstacleX, ObstacleY, ObstacleTheta, ObstacleSpeed>>
            /\ get_centre(npcs'[1].box) = <<ObstacleX, ObstacleY>>
            /\ ~npcs'[1].crashing
            /\ ~obstacle_gone'
       ELSE npcs' = <<>>

\* C23: after NPCManager.reset, from any reachable state, the roster holds exactly one
\* NPC, a fresh Obstacle that is not crashing, and obstacle_gone is false, when an
\* Obstacle is configured; the roster is empty when none is configured; MAX is unchanged.
C23_ResetRebuildsRoster == [][C23_Tick]_vars

\* a reset was called after steps had moved the Obstacle away from its start (or removed
\* it), and the roster is the fresh Obstacle alone
C23_ResetAfterSteps ==
  /\ obstacle /\ resets > 0 /\ ticks > 0 /\ ~trace.called
  /\ Len(npcs) = 1 /\ npcs[1].y = ObstacleY /\ ~obstacle_gone

(***************************************************************************)
(* Further properties of the environment (checked under Spec)              *)
(***************************************************************************)
\* C24: the base observation built by a reset or a step that returns is the agent's
\* [x, y, heading, speed] (for a step: as the move left them, the position being clamped
\* only afterwards), then [x, y, heading, speed] of each live NPC in roster order, NPC i
\* (counted from 0) at positions 4+4i .. 7+4i, then zeros for every unused slot up to MAX.
C24_ObservationLayout ==
  (ret.op \in {"reset", "step"} /\ ret.raised = "none") =>
    /\ Len(ret.obs) >= 4 + 4 * Len(npcs)
    /\ <<limit(ret.obs[1], 0, Width), limit(ret.obs[2], 0, Height), ret.obs[3], ret.obs[4]>>
         = get_state(IF ret.op = "step" THEN agent ELSE KeepAgentInMap(agent))
    /\ ret.op = "reset" => SubSeq(ret.obs, 1, 4) = get_state(agent)
    /\ \A i \in 0..(Len(npcs) - 1) :
         SubSeq(ret.obs, 5 + 4 * i, 8 + 4 * i) = get_state(npcs[i + 1])
    /\ \A k \in (5 + 4 * Len(npcs))..(4 + 4 * MAX) : ret.obs[k] = 0

\* a step returned with two live NPCs, the second one's state in the second slot, and a
\* free slot of zeros after them
C24_TwoNpcsThenZeros ==
  /\ StepReturned /\ Len(npcs) = 2 /\ MAX > 2
  /\ SubSeq(ret.obs, 9, 12) = get_state(npcs[2])
  /\ get_state(npcs[2]) # <<0, 0, 0, 0>>
  /\ SubSeq(ret.obs, 13, 16) = <<0, 0, 0, 0>>

(***************************************************************************)
(* Further properties of util.py (checked under SpecGeometry)              *)
(***************************************************************************)
\* C25: the construction of a Rectangle fails (raises, no box is built) exactly when the
\* points argument does not have 4 points or some point does not have 2 coordinates,
\* and succeeds, keeping the points, for every argument of 4 two-coordinate points.
C25_ConstructionFailsIffMalformed ==
  ret.op = "Rectangle" =>
    /\ ret.result.raised <=>
         (Len(ret.pt) # 4 \/ \E i \in 1..Len(ret.pt) : Len(ret.pt[i]) # 2)
    /\ ret.result.raised => ret.result.points = <<>>
    /\ ~ret.result.raised => ret.result.points = ret.pt

\* a construction from four points, one of which has three coordinates, raised
C25_FourPointsOneMalformed ==
  /\ ret.op = "Rectangle" /\ ret.result.raised
  /\ Len(ret.pt) = 4 /\ Len(ret.pt[1]) = 2 /\ Len(ret.pt[4]) = 3

\* C26: move_to is idempotent: right after a call move_to(x, y, theta), a second call
\* with the same target leaves all four corners where they are.
C26_MoveToIdempotent ==
  ret.op = "move_to" =>
    move_to(agent.box, ret.pt[1], ret.pt[2], ret.pt[3]) = agent.box

\* a move_to call that moved the box
C26_MoveToMoved ==
  /\ ret.op = "move_to" /\ agent.box # ret.result
  /\ get_centre(agent.box) = <<ret.pt[1], ret.pt[2]>>

\* C27: rotate round-trips: after rotate(theta), rotate(-theta) puts all four corners
\* back on their original coordinates, in the original order, and neither rotation
\* moves the centroid.
C27_RotateRoundTrip ==
  ret.op = "rotate" =>
    /\ rotate(agent.box, -ret.pt[1]) = ret.result
    /\ get_centre(agent.box) = get_centre(ret.result)
    /\ get_centre(rotate(agent.box, -ret.pt[1])) = get_centre(agent.box)

\* a rotate call that turned the box onto other corners
C27_RotateTurned ==
  /\ ret.op = "rotate" /\ ret.pt[1] % 4 # 0
  /\ \A i \in 1..4 : agent.box[i] # ret.result[i]

(***************************************************************************)
(* Properties of the manager's queries (checked under SpecQueries)         *)
(***************************************************************************)
\* C28: get_closest returns the NPC at the least Euclidean distance from the given
\* position, with that distance; of several NPCs at the least distance it returns the
\* earliest in the roster; on an empty roster it returns an empty result, without error.
C28_ClosestFirstSeen ==
  ret.op = "get_closest" =>
    IF Len(npcs) = 0 THEN ~ret.result.found
    ELSE /\ ret.result.found
         /\ ret.result.index \in 1..Len(npcs)
         /\ ret.result.npc = npcs[ret.result.index]
         /\ ret.result.dist_sq = DistSq(ret.pos, get_pos(ret.result.npc))
         /\ \A j \in 1..Len(npcs) :
              ret.result.dist_sq <= DistSq(ret.pos, get_pos(npcs[j]))
         /\ \A j \in 1..(ret.result.index - 1) :
              ret.result.dist_sq < DistSq(ret.pos, get_pos(npcs[j]))

\* get_closest was called on a roster in which two NPCs are at the least distance from
\* the position, and returned the earlier one
C28_TieFirstWins ==
  /\ ret.op = "get_closest" /\ ret.result.found
  /\ \E j \in (ret.result.index + 1)..Len(npcs) :
       DistSq(ret.pos, get_pos(npcs[j])) = ret.result.dist_sq


(***************************************************************************)
(* Properties of the zones (checked under SpecZones)                       *)
(***************************************************************************)
\* the zones of a list that have the position strictly inside their rectangle
ZonesAround(zones, pos) == {i \in 1..Len(zones) : StrictlyInside(zones[i].box, pos)}

\* the zones of a list that have the position on an edge or at a corner
ZonesTouching(zones, pos) == {i \in 1..Len(zones) : OnBoundary(zones[i].box, pos)}

\* the answer names a zone of the list that has the position inside or on its
\* boundary, and no earlier zone of the list has the position strictly inside
FirstZoneNamed(zones, pos, id) ==
  \E i \in ZonesAround(zones, pos) \cup ZonesTouching(zones, pos) :
    /\ zones[i].id = id
    /\ id = i - 1
    /\ \A j \in ZonesAround(zones, pos) : j >= i

\* C29: get_zone answers ("lane", id) whenever the agent's position is inside a lane,
\* also when it is inside an intersection too; otherwise ("intersection", id) when it is
\* inside an intersection; otherwise ("on_road", 0) when the colour under the agent is
\* grey or white, and ("off_road", 0) when it is not.  The id is that of the first zone
\* that matches, in the order of the description, lanes and intersections being
\* numbered from 0 separately.  Positions on the boundary of a zone are left open.
C29_ZonePriority ==
  ret.op = "get_zone" =>
    LET pos == get_pos(agent)
        inLane == ZonesAround(lanes, pos) # {}
        offLanes == ZonesAround(lanes, pos) \cup ZonesTouching(lanes, pos) = {}
        inInt == ZonesAround(intersections, pos) # {}
        offInts == ZonesAround(intersections, pos) \cup ZonesTouching(intersections, pos) = {}
    IN  /\ inLane =>
             ret.result.type = "lane" /\ FirstZoneNamed(lanes, pos, ret.result.id)
        /\ (offLanes /\ inInt) =>
             /\ ret.result.type = "intersection"
             /\ FirstZoneNamed(intersections, pos, ret.result.id)
        /\ (offLanes /\ offInts) =>
             ret.result = IF check_pixels(agent, ret.pixel) \in {"grey", "white"}
                          THEN Zone("on_road", 0) ELSE Zone("off_road", 0)

(***************************************************************************)
(* Properties of the motion model (checked under SpecMotion)               *)
(***************************************************************************)
\* C30: Unicycle.move updates in this order: the speed is increased by the acceleration
\* first; the heading is advanced by the steering angle computed from the updated speed,
\* and normalized; the displacement (dx, dy) = (speed * sin(heading), speed * cos(heading))
\* uses the updated speed and the updated heading; the new position is the old position
\* plus the returned (dx, dy).
C30_MoveOrder ==
  ret.op = "move" =>
    /\ agent.speed = ret.before[4] + ret.acc
    /\ ret.result[3] = agent.speed * ret.steer
    /\ (agent.heading - (ret.before[3] + ret.result[3])) % 4 = 0
    /\ agent.heading \in -2..2
    /\ ret.result[1] = agent.speed * Sin(agent.heading)
    /\ ret.result[2] = agent.speed * Cos(agent.heading)
    /\ agent.x = ret.before[1] + ret.result[1]
    /\ agent.y = ret.before[2] + ret.result[2]

\* a moving vehicle was accelerated and steered in one call, so that the old and the new
\* speed, and the old and the new heading, give different displacements
C30_AcceleratedAndSteered ==
  /\ ret.op = "move" /\ ret.acc # 0 /\ ret.steer # 0 /\ ret.before[4] # 0
  /\ agent.heading # ret.before[3]
  /\ <<ret.result[1], ret.result[2]>>
       # <<ret.before[4] * Sin(agent.heading), ret.before[4] * Cos(agent.heading)>>
  /\ <<ret.result[1], ret.result[2]>>
       # <<agent.speed * Sin(ret.before[3]), agent.speed * Cos(ret.before[3])>>

(***************************************************************************)
(* Further properties of util.py (checked under SpecGeometry): the pose of *)
(* a box after move_to                                                     *)
(***************************************************************************)
\* the box has its centroid at (x, y): the corners sum to four times the point
CentredOn(box, x, y) ==
  /\ box[1][1] + box[2][1] + box[3][1] + box[4][1] = 4 * x
  /\ box[1][2] + box[2][2] + box[3][2] + box[4][2] = 4 * y

\* the orientation of the box is theta, modulo a full turn
AlignedWith(box, theta) == (get_angle(box) - theta) % 4 = 0

\* the squared lengths of the four sides, in order
SidesSq(box) ==
  << DistSq(box[1], box[2]), DistSq(box[2], box[3]),
     DistSq(box[3], box[4]), DistSq(box[4], box[1]) >>

\* C31: after move_to(x, y, theta) the centroid of the box is (x, y), its orientation
\* (get_angle) is theta modulo a full turn, and its side lengths are what they were; a
\* freshly constructed Agent or NPC has its box centred on its position and aligned
\* with its heading.
C31_MoveToReachesPose ==
  /\ ret.op = "move_to" =>
       /\ CentredOn(agent.box, ret.pt[1], ret.pt[2])
       /\ AlignedWith(agent.box, ret.pt[3])
       /\ SidesSq(agent.box) = SidesSq(ret.result)
  /\ ret.op = "init" =>
       /\ CentredOn(agent.box, agent.x, agent.y) /\ AlignedWith(agent.box, agent.heading)
       /\ CentredOn(npcs[1].box, npcs[1].x, npcs[1].y)
       /\ AlignedWith(npcs[1].box, npcs[1].heading)
       /\ SidesSq(agent.box) = SidesSq(InitBox)

\* move_to was called on a box that was neither centred on the target nor aligned
\* with the target angle
C31_MovedAndTurned ==
  /\ ret.op = "move_to"
  /\ ~CentredOn(ret.result, ret.pt[1], ret.pt[2])
  /\ ~AlignedWith(ret.result, ret.pt[3])
  /\ agent.box # ret.result

(***************************************************************************)
(* Further properties of util.py (checked under SpecGeometry): boxes that  *)
(* cross like a plus                                                       *)
(***************************************************************************)
\* A spans B along axis k and B spans A along the other axis: the edges of the two
\* axis-parallel boxes cross, and no corner of either lies inside or on the other
Spans(A, B, k) ==
  /\ BoxLo(A, k) < BoxLo(B, k) /\ BoxHi(B, k) < BoxHi(A, k)
  /\ BoxLo(B, 3 - k) < BoxLo(A, 3 - k) /\ BoxHi(A, 3 - k) < BoxHi(B, 3 - k)

PlusCrossing(A, B) == Spans(A, B, 1) \/ Spans(A, B, 2)

\* C32: two boxes whose edges cross while no corner of either lies inside the other (a
\* plus-shaped crossing) are reported as not overlapping by overlaps in both directions,
\* so that check_collision reports no collision for them.
C32_PlusCrossingNotReported ==
  (ret.op = "overlaps" /\ PlusCrossing(agent.box, npcs[1].box)) =>
    /\ ~ret.result
    /\ ~overlaps(npcs[1].box, agent.box)
    /\ ~check_collision(npcs, agent.box)

(***************************************************************************)
(* Further properties of the environment (checked under Spec): reset with  *)
(* a supplied state                                                        *)
(***************************************************************************)
\* C33: reset(state) with a supplied 8-vector returns an observation whose first four
\* entries are state[0:4]; when the roster is non-empty after the traffic reset the next
\* four entries are state[4:8]; when it is empty the NPC part of the vector is ignored
\* and the NPC slots are zero.
C33_ResetObservesSuppliedState ==
  [][\A state \in ResetStates, crash \in BOOLEAN :
       (EnvReset(state, crash) /\ state.given) =>
         /\ SubSeq(ret'.obs, 1, 4) = SubSeq(state.x_0, 1, 4)
         /\ Len(npcs') > 0 => SubSeq(ret'.obs, 5, 8) = SubSeq(state.x_0, 5, 8)
         /\ Len(npcs') = 0 =>
              SubSeq(ret'.obs, 5, Len(ret'.obs)) = ZeroList(Len(ret'.obs) - 4)]_vars

\* a reset has returned the supplied state of an agent outside the map, and of an NPC
\* that differs from the Obstacle the traffic reset had built
C33_SuppliedStateObserved ==
  /\ ret.op = "reset" /\ Len(npcs) > 0
  /\ SubSeq(ret.obs, 1, 4) = <<Width + 1, 4, 0, 0>>
  /\ SubSeq(ret.obs, 5, 8) = <<3, 5, 0, 1>>
  /\ SubSeq(ret.obs, 5, 8) # get_state(NewObstacle(FALSE))

(***************************************************************************)
(* Further properties of the traffic manager (checked under SpecTraffic):  *)
(* the order of the roster                                                 *)
(***************************************************************************)
\* sub is full with some entries left out, the others in the order they have in full
RECURSIVE IsSubsequence(_, _)
IsSubsequence(sub, full) ==
  IF sub = <<>> THEN TRUE
  ELSE IF full = <<>> THEN FALSE
  ELSE \/ Head(sub) = Head(full) /\ IsSubsequence(Tail(sub), Tail(full))
       \/ IsSubsequence(sub, Tail(full))

\* C34, one call: the roster after a step is the moved roster, followed by the NPC the
\* step has spawned, with the removed NPCs left out
C34_Tick ==
  (ticks' # ticks /\ trace'.called) =>
    LET moved == MoveAll(npcs, PreparedActions(Len(npcs), trace'.actions))
    IN  IF trace'.spawn.added
        THEN IsSubsequence(npcs', Append(moved, trace'.spawn.new))
        ELSE IsSubsequence(npcs', moved)

\* C34: the roster keeps spawn order: across every step the NPCs that survive the tick
\* keep their relative order, and a newly spawned NPC is placed after all the NPCs that
\* were already in the roster.
C34_RosterKeepsSpawnOrder == [][C34_Tick]_vars

\* a step has spawned an NPC into a roster that held others, one of which was removed
\* in the same tick, and the new NPC is the last of those that remain
C34_SpawnedBehindSurvivors ==
  /\ trace.called /\ trace.spawn.added
  /\ Len(trace.spawn.others) >= 2
  /\ Len(npcs) >= 2 /\ Len(npcs) <= Len(trace.spawn.others)
  /\ npcs[Len(npcs)] = trace.spawn.new
  /\ \A k \in 1..(Len(npcs) - 1) : npcs[k] # trace.spawn.new

(***************************************************************************)
(* Further properties of util.py (checked under SpecGeometry): the branch  *)
(* of intersect for parallel segments                                      *)
(***************************************************************************)
\* the ray crosses the line, a line parallel to the ray counting as not crossed
CrossesApart(ray, line) == cross_product(ray, line) # 0 /\ intersect(ray, line)

\* the count of is_inside with parallel lines left out
InsideWithParallelApart(points, pt) ==
  LET ray == << <<0, 0>>, pt >>
      lines == Lines(points)
      crossed == Count(CrossesApart(ray, lines[1])) + Count(CrossesApart(ray, lines[2]))
                 + Count(CrossesApart(ray, lines[3])) + Count(CrossesApart(ray, lines[4]))
      corners == Count(on_segment(ray, points[1])) + Count(on_segment(ray, points[2]))
                 + Count(on_segment(ray, points[3])) + Count(on_segment(ray, points[4]))
  IN  (crossed + corners) % 2 = 1

\* some edge of the box is parallel to the ray from the origin to the point
RayParallelToEdge(points, pt) ==
  \E i \in 1..4 : cross_product(<< <<0, 0>>, pt >>, Lines(points)[i]) = 0

\* C35: the branch of intersect that reports parallel segments as intersecting never
\* changes the result of is_inside for a point other than the origin: an edge parallel
\* to the ray is matched by the opposite edge, the branch adds an even number of
\* crossings, and is_inside answers as it would if parallel segments did not intersect.
C35_ParallelBranchKeepsParity ==
  (ret.op = "is_inside" /\ ret.pt # <<0, 0>>) =>
    ret.result = InsideWithParallelApart(agent.box, ret.pt)

\* is_inside was asked about a point that is not the origin, with two edges of the box
\* parallel to the ray, and answered that the point is inside
C35_ParallelRayInside ==
  /\ ret.op = "is_inside" /\ ret.pt # <<0, 0>>
  /\ RayParallelToEdge(agent.box, ret.pt)
  /\ ret.result

(***************************************************************************)
(* Further properties of the traffic manager (checked under SpecTraffic):  *)
(* what the removal loop removes                                           *)
(***************************************************************************)
InsideMap(npc) == in_map(npc, Width, Height)

\* C36, one call: the NPCs that are inside the map when the removal loop starts, in
\* their order, are the NPCs inside the map when the step returns
C36_Tick ==
  (ticks' # ticks /\ trace'.called) =>
    LET moved == MoveAll(npcs, PreparedActions(Len(npcs), trace'.actions))
        scanned == IF trace'.spawn.added THEN Append(moved, trace'.spawn.new) ELSE moved
    IN  SelectSeq(scanned, InsideMap) = SelectSeq(npcs', InsideMap)

\* C36: step removes an NPC only if it is outside the map at the removal phase: no NPC
\* whose position is inside the map is ever removed, also in a tick in which other NPCs
\* are deleted from the roster during the scan.
C36_OnlyOutsideNpcsRemoved == [][C36_Tick]_vars

\* a step has deleted the first NPC of the roster, which was outside the map, and the
\* NPC that followed it, inside the map and passed over by the scan, is still there
C36_SurvivorBehindRemoved ==
  /\ trace.called /\ trace.spawn.added /\ Len(trace.spawn.others) >= 2
  /\ ~InsideMap(trace.spawn.others[1])
  /\ InsideMap(trace.spawn.others[2])
  /\ Len(npcs) >= 1 /\ npcs[1] = trace.spawn.others[2]

(***************************************************************************)
(* Properties of the traffic manager stepped for ever (checked under       *)
(* SpecLive)                                                               *)
(***************************************************************************)
\* C37: every NPC that has left the map and stays outside it is eventually removed from
\* the roster if step keeps being called: an NPC outside the map can be in the roster
\* when a step returns, but only for finitely many steps.
C37_OutsideNpcEventuallyRemoved ==
  (ret.op = "follow" /\ ret.index > 0) ~> (ret.op = "follow" /\ ret.index = 0)

\* an NPC outside the map is followed: it was in the roster when a step returned,
\* passed over by the removal loop
C37_OutsideNpcLeftInRoster ==
  /\ ret.op = "follow" /\ ret.index > 0
  /\ ret.index <= Len(npcs) /\ ~InsideMap(npcs[ret.index])

(***************************************************************************)
(* Further properties of the traffic manager (checked under SpecTraffic):  *)
(* the Obstacle's crash                                                    *)
(***************************************************************************)
\* the Obstacles of a roster
ObstaclesOf(list) == {list[i] : i \in {k \in 1..Len(list) : list[k].kind = "obstacle"}}

\* C38, one call: crashing is true only for an Obstacle whose crash is enabled; a step
\* made with a crashing Obstacle leaves it crashing while it is in the roster; an
\* Obstacle whose crash is not enabled is moved with the action handed to its move
C38_Tick ==
  /\ \A o \in ObstaclesOf(npcs') : o.crashing => o.crash
  /\ \A i \in 1..Len(npcs') : npcs'[i].kind # "obstacle" => ~npcs'[i].crashing
  /\ (ticks' # ticks /\ \E o \in ObstaclesOf(npcs) : o.crashing) =>
       \A o \in ObstaclesOf(npcs') : o.crashing
  /\ (ticks' # ticks /\ trace'.called) =>
       \A i \in 1..Len(trace'.log) :
         (trace'.log[i].kind = "obstacle" /\ ~trace'.log[i].crash) =>
           /\ trace'.log[i].control = <<trace'.log[i].acc, trace'.log[i].theta>>
           /\ ~trace'.log[i].crashing

\* C38: the Obstacle's crashing state is latched: it becomes true only for an Obstacle
\* whose crash is enabled, and once true it stays true in every later tick, whatever the
\* Obstacle's later y-position or speed, until the traffic manager is reset; an Obstacle
\* whose crash is not enabled is never crashing and always applies the supplied action.
C38_CrashingLatched == [][C38_Tick]_vars

\* a step was made with an Obstacle that was crashing already, had come to a halt or
\* was backing, and was below the crash line again; it is crashing still
C38_StillCrashingBelowLine ==
  /\ trace.called /\ Len(trace.log) >= 1
  /\ trace.log[1].kind = "obstacle" /\ trace.log[1].crashing
  /\ trace.log[1].speed <= 0 /\ trace.log[1].y < CrashY
  /\ \E o \in ObstaclesOf(npcs) : o.crashing

\* C39: when an Obstacle is configured, in every reachable state in which the
\* obstacle-gone flag is false the roster is non-empty and its first entry is the
\* Obstacle, so get_obstacle returns the Obstacle and not a plain NPC; spawns and removals
\* of other NPCs never displace it from index 0.
C39_ObstacleFirstInRoster ==
  (obstacle /\ ~obstacle_gone) =>
    /\ Len(npcs) > 0
    /\ npcs[1].kind = "obstacle"
    /\ \A i \in 2..Len(npcs) : npcs[i].kind # "obstacle"
    /\ get_obstacle(obstacle, obstacle_gone, npcs).found
    /\ get_obstacle(obstacle, obstacle_gone, npcs).npc.kind = "obstacle"

\* a step removed a plain NPC from a roster that holds the Obstacle and a plain NPC
\* spawned behind it; the Obstacle is still the first entry
C39_ObstacleKeptThroughSpawnAndRemoval ==
  /\ obstacle /\ ~obstacle_gone
  /\ trace.called
  /\ Len(npcs) >= 2
  /\ Len(npcs) < trace.n + (IF trace.spawn.added THEN 1 ELSE 0)
  /\ npcs[1].kind = "obstacle"

============================================================================
